---- MODULE Spec2Model ----
(***************************************************************************)
(* Model of the CV chat server: the document parser (cv_parser.py), the    *)
(* notification sender (email_service.py) and the HTTP endpoints (main.py).*)
(* Text is a sequence of one-character strings, so that lower-casing,      *)
(* trimming, splitting, substring search and truncation are computed the   *)
(* way the Python code computes them.                                      *)
(***************************************************************************)
EXTENDS Integers, Sequences, FiniteSets, TLC

----------------------------------------------------------------------------
(* Character-level string primitives (Python str methods)                  *)

UpperChars == <<"A","B","C","D","E","F","G","H","I","J","K","L","M","N","O","P","Q","R","S","T","U","V","W","X","Y","Z">>

LowerChars == <<"a","b","c","d","e","f","g","h","i","j","k","l","m","n","o","p","q","r","s","t","u","v","w","x","y","z">>

Digits == <<"0","1","2","3","4","5","6","7","8","9">>

\* Op applied to the value of v, with v evaluated once
With(v, Op(_)) == CHOOSE r \in {Op(x) : x \in {v}} : TRUE

Range(s) == {s[i] : i \in 1..Len(s)}

SetMin(S) == CHOOSE x \in S : \A y \in S : x <= y

SetMax(S) == CHOOSE x \in S : \A y \in S : x >= y

\* str.lower() on one character
LowerChar(c) ==
    IF \E i \in 1..26 : UpperChars[i] = c
    THEN LowerChars[CHOOSE i \in 1..26 : UpperChars[i] = c]
    ELSE c

\* str.lower()
Lower(s) == With(s, LAMBDA v : [i \in 1..Len(v) |-> LowerChar(v[i])])

IsSpace(c) == c \in {" ", "\t", "\n", "\r"}

\* str.strip()
Strip(s) ==
    With(s, LAMBDA v :
        With({i \in 1..Len(v) : ~IsSpace(v[i])}, LAMBDA keep :
            IF keep = {} THEN <<>> ELSE SubSeq(v, SetMin(keep), SetMax(keep))))

\* `sub in s` on strings
Contains(s, sub) ==
    \E v \in {s} : \E w \in {sub} :
        \E i \in 0..(Len(v) - Len(w)) : \A j \in 1..Len(w) : v[i + j] = w[j]

\* any(word in s for word in words)
ContainsAny(s, words) ==
    \E v \in {s} : \E k \in 1..Len(words) : Contains(v, words[k])

RECURSIVE Split(_, _)
\* str.split(sep) for a one-character separator
Split(s, sep) ==
    With(s, LAMBDA v :
        With({i \in 1..Len(v) : v[i] = sep}, LAMBDA at :
            IF at = {} THEN <<v>>
            ELSE <<SubSeq(v, 1, SetMin(at) - 1)>>
                     \o Split(SubSeq(v, SetMin(at) + 1, Len(v)), sep)))

RECURSIVE Join(_, _)
\* sep.join(parts)
Join(parts, sep) ==
    With(parts, LAMBDA p :
        IF Len(p) = 0 THEN <<>>
        ELSE IF Len(p) = 1 THEN p[1]
        ELSE p[1] \o sep \o Join(Tail(p), sep))

\* s[:n]
Prefix(s, n) == With(s, LAMBDA v : SubSeq(v, 1, IF Len(v) < n THEN Len(v) ELSE n))

RECURSIVE Tokenize(_)
\* nltk word_tokenize on text whose tokens are separated by white space
Tokenize(s) ==
    With(Strip(s), LAMBDA t :
        With({i \in 1..Len(t) : IsSpace(t[i])}, LAMBDA ws :
            IF t = <<>> THEN <<>>
            ELSE IF ws = {} THEN <<t>>
            ELSE <<SubSeq(t, 1, SetMin(ws) - 1)>>
                     \o Tokenize(SubSeq(t, SetMin(ws) + 1, Len(t)))))

----------------------------------------------------------------------------
(* Section segmentation: CVParser._parse_cv_sections                       *)

SectionNames ==
    <<"personal_info", "summary", "experience", "education", "skills",
      "clubs", "projects", "achievements", "other">>

Pat_personal_info ==
    <<<<"p","e","r","s","o","n","a","l">>,
       <<"c","o","n","t","a","c","t">>,
       <<"d","e","t","a","i","l","s">>>>

Pat_summary ==
    <<<<"s","u","m","m","a","r","y">>,
       <<"p","r","o","f","i","l","e">>,
       <<"o","b","j","e","c","t","i","v","e">>,
       <<"a","b","o","u","t">>>>

Pat_experience ==
    <<<<"e","x","p","e","r","i","e","n","c","e">>,
       <<"e","m","p","l","o","y","m","e","n","t">>,
       <<"w","o","r","k">>,
       <<"c","a","r","e","e","r">>,
       <<"p","r","o","f","e","s","s","i","o","n","a","l">>>>

Pat_education ==
    <<<<"e","d","u","c","a","t","i","o","n">>,
       <<"a","c","a","d","e","m","i","c">>,
       <<"q","u","a","l","i","f","i","c","a","t","i","o","n">>,
       <<"d","e","g","r","e","e">>>>

Pat_skills ==
    <<<<"s","k","i","l","l","s">>,
       <<"c","o","m","p","e","t","e","n","c","i","e","s">>,
       <<"t","e","c","h","n","o","l","o","g","i","e","s">>,
       <<"t","e","c","h","n","i","c","a","l">>>>

Pat_clubs ==
    <<<<"c","l","u","b","s">>,
       <<"u","n","i","o","n","s">>>>

Pat_projects ==
    <<<<"p","r","o","j","e","c","t","s">>,
       <<"p","o","r","t","f","o","l","i","o">>>>

Pat_achievements ==
    <<<<"a","c","h","i","e","v","e","m","e","n","t","s">>,
       <<"a","w","a","r","d","s">>,
       <<"h","o","n","o","r","s">>,
       <<"a","c","c","o","m","p","l","i","s","h","m","e","n","t","s">>>>

\* the section_patterns dict, in insertion order
section_patterns ==
    << <<"personal_info", Pat_personal_info>>,
       <<"summary", Pat_summary>>,
       <<"experience", Pat_experience>>,
       <<"education", Pat_education>>,
       <<"skills", Pat_skills>>,
       <<"clubs", Pat_clubs>>,
       <<"projects", Pat_projects>>,
       <<"achievements", Pat_achievements>> >>

HeaderLimit == 50

\* re.search(pattern, line_lower) for an alternation of literals
PatternMatches(k, line) == ContainsAny(Lower(line), section_patterns[k][2])

\* the inner for/else of the line loop: the first pattern, in dict order,
\* that matches a line shorter than 50 characters; "none" when the for
\* loop falls through to its else branch
HeaderOf(line) ==
    With(line, LAMBDA l :
        With({k \in 1..Len(section_patterns) :
                 PatternMatches(k, l) /\ Len(l) < HeaderLimit}, LAMBDA hits :
            IF hits = {} THEN "none" ELSE section_patterns[SetMin(hits)][1]))

EmptySections == [n \in Range(SectionNames) |-> <<>>]

\* ParseLine with a slip: the header line is also appended to the body of
\* the section it opens
ParseLine_KeepsHeader(raw, current_section, sections) ==
    With(Strip(raw), LAMBDA line :
        With(HeaderOf(line), LAMBDA header :
            IF line = <<>>
            THEN [current_section |-> current_section, sections |-> sections]
            ELSE IF header # "none"
            THEN [current_section |-> header,
                  sections |-> [sections EXCEPT ![header] = Append(@, line)]]
            ELSE [current_section |-> current_section,
                  sections |-> [sections EXCEPT ![current_section] = Append(@, line)]]))

\* the body of the `for line in lines` loop for one line: the running
\* current_section and sections after it
ParseLine(raw, current_section, sections) ==
    With(Strip(raw), LAMBDA line :
        With(HeaderOf(line), LAMBDA header :
            IF line = <<>>
            THEN [current_section |-> current_section, sections |-> sections]
            ELSE IF header # "none"
            THEN [current_section |-> header, sections |-> sections]
            ELSE [current_section |-> current_section,
                  sections |-> [sections EXCEPT ![current_section] = Append(@, line)]]))

RECURSIVE ParseLoop(_, _, _)
\* the `for line in lines` loop, from line i on
ParseLoop(lines, i, st) ==
    IF i > Len(lines) THEN st.sections
    ELSE With(ParseLine(lines[i], st.current_section, st.sections), LAMBDA next :
             ParseLoop(lines, i + 1, next))

\* the local `sections` dict of line lists when the loop ends
SectionLines(content) ==
    With(Split(content, "\n"), LAMBDA lines :
        ParseLoop(lines, 1, [current_section |-> "other", sections |-> EmptySections]))

\* the value assigned to self.cv_sections
ParseSections(content) ==
    With(SectionLines(content), LAMBDA sl :
        [n \in {m \in Range(SectionNames) : sl[m] # <<>>} |->
            Join(sl[n], <<"\n">>)])

\* dict.get(name, '')
SectionGet(sections, name) ==
    IF name \in DOMAIN sections THEN sections[name] ELSE <<>>

----------------------------------------------------------------------------
(* Entity extraction: CVParser._extract_entities                           *)

\* 'Alice' (5 characters)
W_Alice == <<"A","l","i","c","e">>

\* 'Acme' (4 characters)
W_Acme == <<"A","c","m","e">>

\* 'London' (6 characters)
W_London == <<"L","o","n","d","o","n">>

\* '2020' (4 characters)
W_2020 == <<"2","0","2","0">>

\* ent.label_ of the span the language model reports for a token: the
\* model is a fixed function of the text
NerLabel(tok) ==
    IF tok = W_Alice THEN "PERSON"
    ELSE IF tok = W_Acme THEN "ORG"
    ELSE IF tok = W_London THEN "GPE"
    ELSE IF tok = W_2020 THEN "DATE"
    ELSE "none"

\* doc.ents of self.nlp(content), in encounter order
DocEnts(content) == SelectSeq(Tokenize(content), LAMBDA tok : NerLabel(tok) # "none")

\* the character class [A-Za-z0-9 &.,-] of company_regex
CompanyChar(c) ==
    \/ c \in Range(UpperChars) \/ c \in Range(LowerChars) \/ c \in Range(Digits)
    \/ c \in {" ", "&", ".", ",", "-"}

\* seg matches \s*([A-Za-z0-9 &.,-]+)\s*
CompanySegment(seg) ==
    \E s \in {seg} : \E a \in 0..Len(s) : \E b \in (a + 1)..Len(s) :
        /\ \A i \in 1..a : IsSpace(s[i])
        /\ \A i \in (a + 1)..b : CompanyChar(s[i])
        /\ \A i \in (b + 1)..Len(s) : IsSpace(s[i])

\* the "|" positions from which company_regex matches up to the next "|"
CompanyStarts(line) ==
    {i \in 1..Len(line) :
        /\ line[i] = "|"
        /\ \E j \in (i + 1)..Len(line) :
              /\ line[j] = "|"
              /\ \A k \in (i + 1)..(j - 1) : line[k] # "|"
              /\ CompanySegment(SubSeq(line, i + 1, j - 1))}

\* re.search(company_regex, line).group(1).strip(); <<>> when no match
CompanyOf(line) ==
    With(CompanyStarts(line), LAMBDA starts :
        IF starts = {} THEN <<>>
        ELSE With(SetMin(starts), LAMBDA i :
                 With(SetMin({k \in (i + 1)..Len(line) : line[k] = "|"}), LAMBDA j :
                     Strip(SubSeq(line, i + 1, j - 1)))))

RECURSIVE CompanyLoop(_, _, _)
\* the loop over the lines of the experience section
CompanyLoop(lines, i, organizations) ==
    IF i > Len(lines) THEN organizations
    ELSE With(CompanyOf(lines[i]), LAMBDA company :
             With(IF company # <<>> /\ company \notin Range(organizations)
                  THEN Append(organizations, company)
                  ELSE organizations, LAMBDA next :
                 CompanyLoop(lines, i + 1, next)))

tech_keywords ==
    <<<<"p","y","t","h","o","n">>,
       <<"j","a","v","a">>,
       <<"j","a","v","a","s","c","r","i","p","t">>,
       <<"r","e","a","c","t">>,
       <<"n","o","d","e",".","j","s">>,
       <<"s","q","l">>,
       <<"m","o","n","g","o","d","b">>,
       <<"a","w","s">>,
       <<"d","o","c","k","e","r">>,
       <<"k","u","b","e","r","n","e","t","e","s">>,
       <<"g","i","t">>,
       <<"l","i","n","u","x">>,
       <<"t","e","n","s","o","r","f","l","o","w">>,
       <<"p","y","t","o","r","c","h">>,
       <<"h","t","m","l">>,
       <<"c","s","s">>,
       <<"a","n","g","u","l","a","r">>,
       <<"v","u","e">>,
       <<"d","j","a","n","g","o">>,
       <<"f","l","a","s","k">>,
       <<"f","a","s","t","a","p","i">>>>

\* the spaCy part of the entities, from doc.ents
EntitiesOfDoc(ents) ==
    [persons       |-> SelectSeq(ents, LAMBDA tok : NerLabel(tok) = "PERSON"),
     organizations |-> SelectSeq(ents, LAMBDA tok : NerLabel(tok) \in {"ORG", "COMPANY"}),
     locations     |-> SelectSeq(ents, LAMBDA tok : NerLabel(tok) \in {"GPE", "LOC"}),
     dates         |-> SelectSeq(ents, LAMBDA tok : NerLabel(tok) = "DATE"),
     technologies  |-> <<>>]

\* the technologies list: the keywords that occur in content_lower
Technologies(content) ==
    With(Lower(content), LAMBDA content_lower :
        SelectSeq(tech_keywords, LAMBDA tech : Contains(content_lower, tech)))

\* the value assigned to self.cv_entities
ExtractEntities(content, sections) ==
    With(EntitiesOfDoc(DocEnts(content)), LAMBDA entities :
        With(Split(SectionGet(sections, "experience"), "\n"), LAMBDA lines :
            [entities EXCEPT
                !.organizations = CompanyLoop(lines, 1, @),
                !.technologies = Technologies(content)]))

\* dict.get(kind, [])
EntityGet(entities, kind) ==
    IF kind \in DOMAIN entities THEN entities[kind] ELSE <<>>

----------------------------------------------------------------------------
(* The parser object and CVParser.load_cv                                  *)

\* CVParser.__init__
NewParser ==
    [cv_content  |-> <<>>,
     cv_sections |-> <<>>,
     cv_entities |-> <<>>,
     is_loaded   |-> FALSE]

SupportedSuffixes ==
    {<<".","p","d","f">>, <<".","d","o","c","x">>, <<".","d","o","c">>,
     <<".","t","x","t">>}

\* load_cv with a slip: self.is_loaded = True is missing
load_cv_ForgetsFlag(self, suffix, extract_fault, content, nlp_fault) ==
    IF Lower(suffix) \notin SupportedSuffixes THEN [self |-> self, ret |-> FALSE]
    ELSE IF extract_fault THEN [self |-> self, ret |-> FALSE]
    ELSE IF Strip(content) = <<>> THEN [self |-> self, ret |-> FALSE]
    ELSE With(ParseSections(content), LAMBDA sections :
             IF nlp_fault
             THEN [self |-> [self EXCEPT !.cv_content = content,
                                         !.cv_sections = sections],
                   ret  |-> FALSE]
             ELSE [self |-> [cv_content  |-> content,
                             cv_sections |-> sections,
                             cv_entities |-> ExtractEntities(content, sections),
                             is_loaded   |-> self.is_loaded],
                   ret  |-> TRUE])

\* load_cv on a file with the given suffix; extract_fault: the reader of
\* the format raises; content: the text it returns otherwise; nlp_fault:
\* the language model raises inside _extract_entities.  The result is the
\* parser after the call together with the returned flag.
load_cv(self, suffix, extract_fault, content, nlp_fault) ==
    IF Lower(suffix) \notin SupportedSuffixes THEN [self |-> self, ret |-> FALSE]
    ELSE IF extract_fault THEN [self |-> self, ret |-> FALSE]
    ELSE IF Strip(content) = <<>> THEN [self |-> self, ret |-> FALSE]
    ELSE With(ParseSections(content), LAMBDA sections :
             IF nlp_fault
             THEN [self |-> [self EXCEPT !.cv_content = content,
                                         !.cv_sections = sections],
                   ret  |-> FALSE]
             ELSE [self |-> [cv_content  |-> content,
                             cv_sections |-> sections,
                             cv_entities |-> ExtractEntities(content, sections),
                             is_loaded   |-> TRUE],
                   ret  |-> TRUE])

----------------------------------------------------------------------------
(* Question answering: CVParser.answer_question and its responders         *)

Kw_role ==
    <<<<"r","o","l","e">>,
       <<"p","o","s","i","t","i","o","n">>,
       <<"j","o","b">>,
       <<"t","i","t","l","e">>>>

Kw_education ==
    <<<<"e","d","u","c","a","t","i","o","n">>,
       <<"d","e","g","r","e","e">>,
       <<"s","t","u","d","y">>,
       <<"u","n","i","v","e","r","s","i","t","y">>,
       <<"c","o","l","l","e","g","e">>>>

Kw_skills ==
    <<<<"s","k","i","l","l">>,
       <<"t","e","c","h","n","o","l","o","g","y">>,
       <<"p","r","o","g","r","a","m","m","i","n","g">>,
       <<"t","e","c","h">>>>

Kw_experience ==
    <<<<"e","x","p","e","r","i","e","n","c","e">>,
       <<"w","o","r","k">>,
       <<"c","o","m","p","a","n","y">>,
       <<"e","m","p","l","o","y","e","r">>>>

Kw_projects ==
    <<<<"p","r","o","j","e","c","t">>,
       <<"b","u","i","l","t">>,
       <<"d","e","v","e","l","o","p","e","d">>>>

role_words ==
    <<<<"e","n","g","i","n","e","e","r">>,
       <<"d","e","v","e","l","o","p","e","r">>,
       <<"m","a","n","a","g","e","r">>,
       <<"a","n","a","l","y","s","t">>,
       <<"d","i","r","e","c","t","o","r">>,
       <<"l","e","a","d">>,
       <<"s","e","n","i","o","r">>,
       <<"j","u","n","i","o","r">>>>

recent_words ==
    <<<<"l","a","s","t">>,
       <<"r","e","c","e","n","t">>,
       <<"c","u","r","r","e","n","t">>>>

\* a returned answer: a fixed text, the value formatted into it, and, for
\* a join over a Python set (whose order is not fixed), the set joined
Answer(text, arg, items) == [text |-> text, arg |-> arg, items |-> items]

\* a confidence n/d; the literals of the code are tenths
Conf(n, d) == <<n, d>>

\* a/b > c/d
ConfGreater(x, y) == x[1] * y[2] > y[1] * x[2]

Ellipsis == <<".", ".", ".">>

Reply(answer, conf, sources) ==
    [answer |-> answer, conf |-> conf, sources |-> sources]

NoReply == Reply(Answer("", <<>>, {}), Conf(0, 10), <<>>)

\* the lines of the experience section that name a role, stripped
RoleLines(experience_section) ==
    With(SelectSeq(Split(experience_section, "\n"),
                   LAMBDA l : ContainsAny(Lower(l), role_words)), LAMBDA hits :
        [i \in 1..Len(hits) |-> Strip(hits[i])])

_answer_role_question(self, q) ==
    With(SectionGet(self.cv_sections, "experience"), LAMBDA experience_section :
        With(RoleLines(experience_section), LAMBDA roles :
            IF experience_section = <<>>
            THEN Reply(Answer("No work experience information found in the CV.", <<>>, {}),
                       Conf(3, 10), <<>>)
            ELSE IF roles # <<>>
            THEN IF ContainsAny(Lower(q), recent_words)
                 THEN Reply(Answer("Your most recent role appears to be: ", roles[1], {}),
                            Conf(8, 10), <<"experience">>)
                 ELSE Reply(Answer("Your roles include: ",
                                   Join(Prefix(roles, 3), <<",", " ">>), {}),
                            Conf(8, 10), <<"experience">>)
            ELSE Reply(Answer("Could not identify specific roles in your CV.", <<>>, {}),
                       Conf(4, 10), <<"experience">>)))

_answer_education_question(self, q) ==
    LET education_section == SectionGet(self.cv_sections, "education")
    IN  IF education_section = <<>>
        THEN Reply(Answer("No education information found in the CV.", <<>>, {}),
                   Conf(3, 10), <<>>)
        ELSE Reply(Answer("Education details: ", education_section, {}),
                   Conf(7, 10), <<"education">>)

_answer_skills_question(self, q) ==
    LET skills_section == SectionGet(self.cv_sections, "skills")
        technologies   == EntityGet(self.cv_entities, "technologies")
    IN  IF technologies # <<>>
        THEN Reply(Answer("Technologies and skills mentioned: ", <<>>, Range(technologies)),
                   Conf(8, 10), <<"skills">>)
        ELSE IF skills_section # <<>>
        THEN Reply(Answer("Skills section: ", Prefix(skills_section, 200) \o Ellipsis, {}),
                   Conf(7, 10), <<"skills">>)
        ELSE Reply(Answer("No specific skills section found, but may be mentioned throughout the CV.",
                          <<>>, {}),
                   Conf(4, 10), <<"skills">>)

_answer_experience_question(self, q) ==
    LET experience_section == SectionGet(self.cv_sections, "experience")
        organizations      == EntityGet(self.cv_entities, "organizations")
    IN  IF organizations # <<>>
        THEN Reply(Answer("Companies/organizations mentioned: ", <<>>, Range(organizations)),
                   Conf(8, 10), <<"experience">>)
        ELSE IF experience_section # <<>>
        THEN Reply(Answer("Work experience: ", Prefix(experience_section, 200) \o Ellipsis, {}),
                   Conf(7, 10), <<"experience">>)
        ELSE Reply(Answer("No work experience section found.", <<>>, {}),
                   Conf(3, 10), <<"experience">>)

_answer_projects_question(self, q) ==
    LET projects_section == SectionGet(self.cv_sections, "projects")
    IN  IF projects_section # <<>>
        THEN Reply(Answer("Projects: ", Prefix(projects_section, 200) \o Ellipsis, {}),
                   Conf(7, 10), <<"projects">>)
        ELSE Reply(Answer("No dedicated projects section found.", <<>>, {}),
                   Conf(3, 10), <<>>)

\* self.stop_words: the entries of the NLTK English stop-word list that
\* the questions and documents of this model can contain
stop_words ==
    {<<"w","h","a","t">>,
     <<"i","s">>,
     <<"t","h","e">>,
     <<"a","n","d">>,
     <<"i","n">>,
     <<"y","o","u","r">>,
     <<"a">>,
     <<"o","f">>,
     <<"d","o">>,
     <<"y","o","u">>,
     <<"a","b","o","u","t">>}

\* [word.lower() for word in word_tokenize(text) if word.lower() not in self.stop_words]
ContentWords(text) ==
    With(Tokenize(text), LAMBDA tokens :
        SelectSeq([i \in 1..Len(tokens) |-> Lower(tokens[i])],
                  LAMBDA w : w \notin stop_words))

\* overlap / max(len(question_words), 1), as a fraction
SectionScore(question_words, content) ==
    With(ContentWords(content), LAMBDA content_words :
        Conf(Cardinality(Range(question_words) \cap Range(content_words)),
             IF Len(question_words) > 1 THEN Len(question_words) ELSE 1))

\* the populated section names in the iteration order of self.cv_sections
SectionKeys(sections) == SelectSeq(SectionNames, LAMBDA n : n \in DOMAIN sections)

\* the body of the loop over self.cv_sections.items() for one item;
\* best holds best_match, best_score and sources
SearchStep(section_name, content, question_words, best) ==
    With(SectionScore(question_words, content), LAMBDA score :
        IF content = <<>> THEN best
        ELSE IF ConfGreater(score, best.best_score)
        THEN [best_match |-> Prefix(content, 300) \o Ellipsis,
              best_score |-> score,
              sources    |-> <<section_name>>]
        ELSE best)

RECURSIVE SearchLoop(_, _, _, _, _)
\* the loop over self.cv_sections.items(), from the i-th item on
SearchLoop(sections, keys, question_words, i, best) ==
    IF i > Len(keys) THEN best
    ELSE With(SearchStep(keys[i], sections[keys[i]], question_words, best), LAMBDA next :
             SearchLoop(sections, keys, question_words, i + 1, next))

\* AboveThreshold with a slip: best_score >= 0.1
AboveThreshold_Inclusive(score) == ~ConfGreater(Conf(1, 10), score)

\* best_score > 0.1
AboveThreshold(score) == ConfGreater(score, Conf(1, 10))

\* best_match, best_score and sources when the loop of _general_search ends
BestSection(sections, q) ==
    With(ContentWords(q), LAMBDA question_words :
        With(SectionKeys(sections), LAMBDA keys :
            SearchLoop(sections, keys, question_words, 1,
                [best_match |-> <<>>, best_score |-> Conf(0, 1), sources |-> <<>>])))

_general_search(self, q) ==
    With(BestSection(self.cv_sections, q), LAMBDA best :
        IF AboveThreshold(best.best_score)
        THEN Reply(Answer("", best.best_match, {}), best.best_score, best.sources)
        ELSE Reply(Answer("I couldn't find relevant information in the CV to answer that question.",
                          <<>>, {}),
                   Conf(2, 10), <<>>))

\* Route with a slip: the skills branch is tested before the education one
Route_SkillsFirst(q) ==
    With(Lower(q), LAMBDA question_lower :
        IF ContainsAny(question_lower, Kw_role) THEN "role"
        ELSE IF ContainsAny(question_lower, Kw_skills) THEN "skills"
        ELSE IF ContainsAny(question_lower, Kw_education) THEN "education"
        ELSE IF ContainsAny(question_lower, Kw_experience) THEN "experience"
        ELSE IF ContainsAny(question_lower, Kw_projects) THEN "projects"
        ELSE "general")

\* the if/elif chain of answer_question: the responder a question goes to
Route(q) ==
    With(Lower(q), LAMBDA question_lower :
        IF ContainsAny(question_lower, Kw_role) THEN "role"
        ELSE IF ContainsAny(question_lower, Kw_education) THEN "education"
        ELSE IF ContainsAny(question_lower, Kw_skills) THEN "skills"
        ELSE IF ContainsAny(question_lower, Kw_experience) THEN "experience"
        ELSE IF ContainsAny(question_lower, Kw_projects) THEN "projects"
        ELSE "general")

\* answer_question with a slip: the is_loaded guard is missing
answer_question_Unguarded(self, q) ==
    With(Route(q), LAMBDA route :
        [responder |-> route,
         ret |-> CASE route = "role"       -> _answer_role_question(self, q)
                   [] route = "education"  -> _answer_education_question(self, q)
                   [] route = "skills"     -> _answer_skills_question(self, q)
                   [] route = "experience" -> _answer_experience_question(self, q)
                   [] route = "projects"   -> _answer_projects_question(self, q)
                   [] OTHER                -> _general_search(self, q)])

\* answer_question: the responder used ("none" before any dispatch) and
\* the returned triple
answer_question(self, q) ==
    IF ~self.is_loaded
    THEN [responder |-> "none",
          ret |-> Reply(Answer("No CV loaded", <<>>, {}), Conf(0, 10), <<>>)]
    ELSE With(Route(q), LAMBDA route :
             [responder |-> route,
              ret |-> CASE route = "role"       -> _answer_role_question(self, q)
                        [] route = "education"  -> _answer_education_question(self, q)
                        [] route = "skills"     -> _answer_skills_question(self, q)
                        [] route = "experience" -> _answer_experience_question(self, q)
                        [] route = "projects"   -> _answer_projects_question(self, q)
                        [] OTHER                -> _general_search(self, q)])

\* v[:100] + "..." if len(v) > 100 else v
Preview(v) == IF Len(v) > 100 THEN Prefix(v, 100) \o Ellipsis ELSE v

\* get_cv_summary
get_cv_summary(self) ==
    IF ~self.is_loaded
    THEN [error |-> "No CV loaded"]
    ELSE [sections         |-> SectionKeys(self.cv_sections),
          entities         |-> self.cv_entities,
          word_count       |-> Len(Tokenize(self.cv_content)),
          sections_preview |-> [n \in DOMAIN self.cv_sections |->
                                   Preview(self.cv_sections[n])]]

----------------------------------------------------------------------------
(* Inputs: file suffixes, document lines and question words                *)

\* '.pdf' (4 characters)
Ext_pdf == <<".","p","d","f">>

\* '.docx' (5 characters)
Ext_docx == <<".","d","o","c","x">>

\* '.doc' (4 characters)
Ext_doc == <<".","d","o","c">>

\* '.txt' (4 characters)
Ext_txt == <<".","t","x","t">>

\* '.TXT' (4 characters)
Ext_TXT == <<".","T","X","T">>

\* '.rtf' (4 characters)
Ext_rtf == <<".","r","t","f">>

\* 'Skills' (6 characters)
L_Skills == <<"S","k","i","l","l","s">>

\* ' Alice knows python ' (20 characters)
L_Body == <<" ","A","l","i","c","e"," ","k","n","o","w","s"," ","p","y","t","h","o","n"," ">>

\* '  ' (2 characters)
L_Blank == <<" "," ">>

\* 'EXPERIENCE' (10 characters)
L_Experience == <<"E","X","P","E","R","I","E","N","C","E">>

\* '  Senior Engineer | Acme Corp | 2020 ' (37 characters)
L_Role == <<" "," ","S","e","n","i","o","r"," ","E","n","g","i","n","e","e","r"," ","|"," ","A","c","m","e"," ","C","o","r","p"," ","|"," ","2","0","2","0"," ">>

\* 'BSc degree London' (17 characters)
L_Degree == <<"B","S","c"," ","d","e","g","r","e","e"," ","L","o","n","d","o","n">>

\* 'Work and Education' (18 characters)
L_WorkEdu == <<"W","o","r","k"," ","a","n","d"," ","E","d","u","c","a","t","i","o","n">>

\* 'Alice plays chess' (17 characters)
L_Chess == <<"A","l","i","c","e"," ","p","l","a","y","s"," ","c","h","e","s","s">>

\* 'What' (4 characters)
Q_what == <<"W","h","a","t">>

\* 'Job' (3 characters)
Q_Job == <<"J","o","b">>

\* 'network' (7 characters)
Q_network == <<"n","e","t","w","o","r","k">>

\* 'degree' (6 characters)
Q_degree == <<"d","e","g","r","e","e">>

\* 'technology' (10 characters)
Q_technology == <<"t","e","c","h","n","o","l","o","g","y">>

\* 'built' (5 characters)
Q_built == <<"b","u","i","l","t">>

\* 'chess' (5 characters)
Q_chess == <<"c","h","e","s","s">>

\* 'hobbies' (7 characters)
Q_hobbies == <<"h","o","b","b","i","e","s">>

\* 'Professional experience building pipelines, python' (50 characters)
L_Len50 == <<"P","r","o","f","e","s","s","i","o","n","a","l"," ","e","x","p","e","r","i","e","n","c","e"," ","b","u","i","l","d","i","n","g"," ","p","i","p","e","l","i","n","e","s",","," ","p","y","t","h","o","n">>

\* 'Professional experience building pipelines python' (49 characters)
L_Len49 == <<"P","r","o","f","e","s","s","i","o","n","a","l"," ","e","x","p","e","r","i","e","n","c","e"," ","b","u","i","l","d","i","n","g"," ","p","i","p","e","l","i","n","e","s"," ","p","y","t","h","o","n">>

\* the sequences over S of length 0..n
SeqsUpTo(S, n) == UNION {[1..k -> S] : k \in 0..n}

\* the documents of at most n lines over the given lines
TextsOf(lines, n) == {Join(s, <<"\n">>) : s \in SeqsUpTo(lines, n)}

\* the questions of at most n words over the given words
QuestionsOf(words, n) == {Join(s, <<" ">>) : s \in SeqsUpTo(words, n)}

Suffixes == {Ext_pdf, Ext_docx, Ext_doc, Ext_txt, Ext_TXT, Ext_rtf}

MaxLoadLines == 1

\* the documents offered to load_cv: the empty one, a blank one, and the
\* documents over a header line and a body line
LoadTexts == {L_Blank} \cup TextsOf({L_Skills, L_Body}, MaxLoadLines)

MaxLoadWords == 1

LoadQuestions == QuestionsOf({Q_Job, Q_chess}, MaxLoadWords)

\* the documents questions are asked of
AskTexts ==
    {Join(<<L_Experience, L_Role, L_Skills, L_Body>>, <<"\n">>),
     Join(<<L_Chess, L_Degree, L_Body>>, <<"\n">>),
     L_Chess}

AskWords == {Q_what, Q_Job, Q_network, Q_degree, Q_technology, Q_built, Q_chess}

MaxAskWords == 2

MaxPad == 10

\* a word followed by 1..n repetitions of a word that occurs in no document
Padded(words, n) ==
    {Join(<<w>> \o [i \in 1..k |-> Q_hobbies], <<" ">>) : w \in words, k \in 1..n}

AskQuestions == QuestionsOf(AskWords, MaxAskWords) \cup Padded({Q_what, Q_chess}, MaxPad)

MaxSegLines == 2

SegTexts ==
    TextsOf({L_Blank, L_Experience, L_Role, L_Degree, L_WorkEdu, L_Len50, L_Len49,
             L_Chess}, MaxSegLines)

HttpTexts == {L_Blank, L_Skills, L_Body}

----------------------------------------------------------------------------
(* The notification sender: email_service.py                               *)

\* 'smtp.gmail.com'
Host_gmail == <<"s","m","t","p",".","g","m","a","i","l",".","c","o","m">>

\* 'mail.example.org'
Host_other == <<"m","a","i","l",".","e","x","a","m","p","l","e",".","o","r","g">>

\* 'gmail'
W_gmail == <<"g","m","a","i","l">>

\* '<html>'
Tag_html == <<"<","h","t","m","l",">">>

\* '<p>'
Tag_p == <<"<","p",">">>

\* 'hello'
Body_plain == <<"h","e","l","l","o">>

\* '<P>hello</P>'
Body_html == <<"<","P",">","h","e","l","l","o","<","/","P",">">>

\* os.getenv(name): <<>> is None, <<s>> is the string s
Unset == <<>>

\* the truth value Python gives an optional string
Truthy(v) == v # Unset /\ v[1] # ""

\* os.getenv(name, default)
GetenvOr(v, default) == IF v = Unset THEN default ELSE v[1]

DefaultFrom == "noreply@example.com"

\* EmailService.__init__ under the environment env
NewEmailService(env) ==
    [sendgrid_api_key |-> env.SENDGRID_API_KEY,
     smtp_server      |-> GetenvOr(env.SMTP_SERVER, Host_gmail),
     smtp_port        |-> 587,
     smtp_username    |-> env.SMTP_USERNAME,
     smtp_password    |-> env.SMTP_PASSWORD,
     from_email       |-> GetenvOr(env.FROM_EMAIL, DefaultFrom)]

\* is_configured with a slip: the SMTP username or the password suffices
is_configured_EitherSmtp(self, available) ==
    IF available /\ Truthy(self.sendgrid_api_key) THEN TRUE
    ELSE IF Truthy(self.smtp_username) \/ Truthy(self.smtp_password) THEN TRUE
    ELSE FALSE

\* EmailService.is_configured; available is the module's SENDGRID_AVAILABLE
is_configured(self, available) ==
    IF available /\ Truthy(self.sendgrid_api_key) THEN TRUE
    ELSE IF Truthy(self.smtp_username) /\ Truthy(self.smtp_password) THEN TRUE
    ELSE FALSE

\* a returned message: a fixed text and the value formatted into it (a
\* sequence, empty when the text has no placeholder)
Msg(text, arg) == [text |-> text, arg |-> arg]

\* the result of a send: the returned pair, the transport steps taken, in
\* order, and the message handed to the transport
Sent(success, message, log, mail) ==
    [ret |-> <<success, message>>, log |-> log, mail |-> mail]

NoMail == [kind |-> "none"]

\* _send_with_sendgrid; outcome: whether sg.send raises, and the status
\* code of its response otherwise
_send_with_sendgrid(self, recipient, subject, body, outcome) ==
    With([kind |-> "Mail", from_email |-> self.from_email, to_emails |-> recipient,
          subject |-> subject, html_content |-> body], LAMBDA message :
        IF outcome.raises
        THEN Sent(FALSE, Msg("SendGrid error: ", <<"exception">>), <<"sendgrid.send">>, message)
        ELSE IF outcome.status_code \in {200, 201, 202}
        THEN Sent(TRUE, Msg("Email sent successfully via SendGrid", <<>>),
                  <<"sendgrid.send">>, message)
        ELSE Sent(FALSE, Msg("SendGrid error: ", <<ToString(outcome.status_code)>>),
                  <<"sendgrid.send">>, message))

\* the MIME sub-part _send_with_smtp attaches for a body
BodySubtype(body) ==
    IF Contains(Lower(body), Tag_html) \/ Contains(Lower(body), Tag_p)
    THEN "html" ELSE "plain"

SmtpSteps == <<"smtp.connect", "smtp.starttls", "smtp.login", "smtp.send_message">>

\* the steps taken when the step named by fail raises ("none": no step
\* does); leaving the `with` block of an open session quits the session
SmtpLog(fail) ==
    With(IF fail = "none" THEN 4
         ELSE IF fail = "smtp.connect" THEN 1
         ELSE IF fail = "smtp.starttls" THEN 2
         ELSE IF fail \in {"smtp.login", "smtp.login.auth"} THEN 3
         ELSE 4, LAMBDA n :
        IF fail = "smtp.connect" THEN SubSeq(SmtpSteps, 1, n)
        ELSE SubSeq(SmtpSteps, 1, n) \o <<"smtp.quit">>)

\* _send_with_smtp with a slip: the handler of SMTPAuthenticationError
\* does not return, so the message is sent in the unauthenticated session
_send_with_smtp_NoReturnOnAuthError(self, recipient, subject, body, fail) ==
    With([kind    |-> "MIMEMultipart",
          Subject |-> subject,
          From    |-> IF self.from_email # DefaultFrom
                      THEN self.from_email ELSE self.smtp_username[1],
          To      |-> recipient,
          subtype |-> BodySubtype(body)], LAMBDA message :
        IF fail \in {"none", "smtp.login.auth"}
        THEN Sent(TRUE, Msg("Email sent successfully via ", self.smtp_server),
                  SmtpLog("none"), message)
        ELSE Sent(FALSE, Msg("SMTP error: ", <<"exception">>), SmtpLog(fail), message))

\* _send_with_smtp; fail names the step that raises: "smtp.login.auth" is
\* login raising SMTPAuthenticationError, "smtp.login" any other fault of it
_send_with_smtp(self, recipient, subject, body, fail) ==
    With([kind    |-> "MIMEMultipart",
          Subject |-> subject,
          From    |-> IF self.from_email # DefaultFrom
                      THEN self.from_email ELSE self.smtp_username[1],
          To      |-> recipient,
          subtype |-> BodySubtype(body)], LAMBDA message :
        IF fail = "smtp.login.auth"
        THEN IF Contains(Lower(self.smtp_server), W_gmail)
             THEN Sent(FALSE, Msg("Gmail authentication failed. Make sure you're using an App Password, not your regular password. Enable 2FA and generate an App Password in your Google Account settings.", <<>>),
                       SmtpLog(fail), message)
             ELSE Sent(FALSE, Msg("Authentication failed for ", self.smtp_server),
                       SmtpLog(fail), message)
        ELSE IF fail # "none"
        THEN Sent(FALSE, Msg("SMTP error: ", <<"exception">>), SmtpLog(fail), message)
        ELSE Sent(TRUE, Msg("Email sent successfully via ", self.smtp_server),
                  SmtpLog(fail), message))

\* the result of trying the second transport after the first failed
Fallback(first, second) ==
    IF first.ret[1] THEN first
    ELSE [ret |-> second.ret, log |-> first.log \o second.log, mail |-> second.mail]

\* send_email with a slip: a failed SendGrid send falls back to SMTP
send_email_FallsBack(self, available, recipient, subject, body, sg_outcome, smtp_fail) ==
    IF ~is_configured(self, available)
    THEN Sent(FALSE, Msg("Email service not configured. Please set up SendGrid API key or SMTP credentials.", <<>>),
              <<>>, NoMail)
    ELSE IF available /\ Truthy(self.sendgrid_api_key)
    THEN IF Truthy(self.smtp_username) /\ Truthy(self.smtp_password)
         THEN Fallback(_send_with_sendgrid(self, recipient, subject, body, sg_outcome),
                       _send_with_smtp(self, recipient, subject, body, smtp_fail))
         ELSE _send_with_sendgrid(self, recipient, subject, body, sg_outcome)
    ELSE IF Truthy(self.smtp_username) /\ Truthy(self.smtp_password)
    THEN _send_with_smtp(self, recipient, subject, body, smtp_fail)
    ELSE Sent(FALSE, Msg("No email service available", <<>>), <<>>, NoMail)

\* EmailService.send_email
send_email(self, available, recipient, subject, body, sg_outcome, smtp_fail) ==
    IF ~is_configured(self, available)
    THEN Sent(FALSE, Msg("Email service not configured. Please set up SendGrid API key or SMTP credentials.", <<>>),
              <<>>, NoMail)
    ELSE IF available /\ Truthy(self.sendgrid_api_key)
    THEN _send_with_sendgrid(self, recipient, subject, body, sg_outcome)
    ELSE IF Truthy(self.smtp_username) /\ Truthy(self.smtp_password)
    THEN _send_with_smtp(self, recipient, subject, body, smtp_fail)
    ELSE Sent(FALSE, Msg("No email service available", <<>>), <<>>, NoMail)

\* EmailService.test_connection
test_connection(self, available) ==
    IF ~is_configured(self, available) THEN <<FALSE, Msg("Email service not configured", <<>>)>>
    ELSE IF available /\ Truthy(self.sendgrid_api_key)
    THEN <<TRUE, Msg("SendGrid configured", <<>>)>>
    ELSE IF Truthy(self.smtp_username) /\ Truthy(self.smtp_password)
    THEN <<TRUE, Msg("SMTP configured", <<>>)>>
    ELSE <<FALSE, Msg("No email service available", <<>>)>>

----------------------------------------------------------------------------
(* The HTTP endpoints: main.py                                             *)

\* how the body of an endpoint ends: raised is "none" for a return, else
\* the class of the exception raised
Outcome(raised, status, detail) ==
    [raised |-> raised, status |-> status, detail |-> detail]

\* the exception classes the endpoints raise; each derives from Exception,
\* fastapi.HTTPException included
ExceptionClasses == {"HTTPException", "OSError"}

\* `except Exception as e: raise HTTPException(status_code=500, ...)`
\* around the body of an endpoint
ExceptException(outcome, detail) ==
    IF outcome.raised \in ExceptionClasses
    THEN Outcome("HTTPException", 500, detail)
    ELSE outcome

\* upload_cv; io_fault: writing or removing the temporary file raises.
\* The result is the parser after the request and the outcome.
upload_cv(self, suffix, io_fault, extract_fault, content, nlp_fault) ==
    IF io_fault
    THEN [self |-> self,
          out  |-> ExceptException(Outcome("OSError", 0, ""), "Error processing CV: ")]
    ELSE With(load_cv(self, suffix, extract_fault, content, nlp_fault), LAMBDA r :
             [self |-> r.self,
              out  |-> ExceptException(
                          IF r.ret
                          THEN Outcome("none", 200, "CV uploaded and parsed successfully")
                          ELSE Outcome("HTTPException", 400, "Failed to parse CV file"),
                          "Error processing CV: ")])

\* chat_about_cv: the outcome and the answer of the parser, if asked
chat_about_cv(self, q) ==
    IF ~self.is_loaded
    THEN [out |-> ExceptException(
                     Outcome("HTTPException", 400, "No CV loaded. Please upload a CV first."),
                     "Error processing question: "),
          answer |-> [responder |-> "none", ret |-> NoReply]]
    ELSE [out |-> ExceptException(Outcome("none", 200, ""), "Error processing question: "),
          answer |-> answer_question(self, q)]

\* get_cv_info
get_cv_info(self) ==
    IF ~self.is_loaded
    THEN ExceptException(Outcome("HTTPException", 400, "No CV loaded"),
                         "Error getting CV info: ")
    ELSE ExceptException(Outcome("none", 200, ""), "Error getting CV info: ")

----------------------------------------------------------------------------
(* State                                                                    *)

VARIABLES
    cv_content,         \* cv_parser.cv_content
    cv_sections,        \* cv_parser.cv_sections: section name -> body
    cv_entities,        \* cv_parser.cv_entities: entity kind -> list of texts
    is_loaded,          \* cv_parser.is_loaded
    SENDGRID_AVAILABLE, \* email_service.SENDGRID_AVAILABLE
    email_service,      \* the fields of the EmailService instance
    op,                 \* the operation or endpoint that ran last
    load_arg,           \* what the last load_cv call was given
    load_ret,           \* what the last load_cv call returned
    ever_loaded,        \* some load_cv call has returned True
    question,           \* the question of the last answer_question call
    responder,          \* the responder the last answer_question call used
    answer_ret,         \* what the last answer_question call returned
    summary_ret,        \* what the last get_cv_summary call returned
    configured_ret,     \* what the last is_configured call returned
    send_arg,           \* what the transports did in the last send_email call
    email_ret,          \* what the last send_email or test_connection call returned
    transport_log,      \* the transport steps of the last send_email call
    mail,               \* the message the last send_email call built
    http_status,        \* the status of the last HTTP response (0: none)
    http_detail         \* the detail of the last HTTP response

parserVars == <<cv_content, cv_sections, cv_entities, is_loaded>>

emailVars == <<SENDGRID_AVAILABLE, email_service>>

loadVars == <<load_arg, load_ret>>

answerVars == <<question, responder, answer_ret>>

sendVars == <<configured_ret, send_arg, email_ret, transport_log, mail>>

httpVars == <<http_status, http_detail>>

vars ==
    <<parserVars, emailVars, op, loadVars, ever_loaded, answerVars, summary_ret,
      sendVars, httpVars>>

\* the fields of the CVParser instance
Parser ==
    [cv_content  |-> cv_content,
     cv_sections |-> cv_sections,
     cv_entities |-> cv_entities,
     is_loaded   |-> is_loaded]

SetParser(self) ==
    /\ cv_content' = self.cv_content
    /\ cv_sections' = self.cv_sections
    /\ cv_entities' = self.cv_entities
    /\ is_loaded' = self.is_loaded

NoArg == [suffix |-> <<>>, extracted |-> "n/a", nlp_fault |-> FALSE]

NoSummary == [error |-> "not called"]

NoEmailRet == <<FALSE, Msg("", <<>>)>>

\* what the extraction step of a load_cv call produced
Extracted(extract_fault, content) ==
    IF extract_fault THEN "fault"
    ELSE IF Strip(content) = <<>> THEN "blank" ELSE "text"

\* the record of a load_cv call
SetLoad(suffix, extract_fault, content, nlp_fault, ret) ==
    /\ load_arg' = [suffix    |-> suffix,
                    extracted |-> Extracted(extract_fault, content),
                    nlp_fault |-> nlp_fault]
    /\ load_ret' = ret
    /\ ever_loaded' = (ever_loaded \/ ret)

NoLoad == load_arg' = NoArg /\ load_ret' = FALSE /\ UNCHANGED ever_loaded

SetAnswer(q, r) == question' = q /\ responder' = r.responder /\ answer_ret' = r.ret

NoAnswer == question' = <<>> /\ responder' = "none" /\ answer_ret' = NoReply

NoSendArg == [sg_outcome |-> [raises |-> FALSE, status_code |-> 0], smtp_fail |-> "none"]

SetSend(s, sg_outcome, smtp_fail) ==
    /\ send_arg' = [sg_outcome |-> sg_outcome, smtp_fail |-> smtp_fail]
    /\ email_ret' = s.ret
    /\ transport_log' = s.log
    /\ mail' = s.mail

NoSend ==
    /\ send_arg' = NoSendArg
    /\ email_ret' = NoEmailRet
    /\ transport_log' = <<>>
    /\ mail' = NoMail

SetHttp(out) == http_status' = out.status /\ http_detail' = out.detail

NoHttp == http_status' = 0 /\ http_detail' = ""

\* the files offered to load_cv: the reader raises, or returns a text
Extractions(texts) == {<<TRUE, <<>>>>} \cup ({FALSE} \X texts)

----------------------------------------------------------------------------
(* The operations on the parser                                            *)

\* a call of load_cv
LoadCv(suffixes, texts, nlp_faults) ==
    \E suffix \in suffixes, x \in Extractions(texts), nlp_fault \in nlp_faults :
        \E r \in {load_cv(Parser, suffix, x[1], x[2], nlp_fault)} :
            /\ SetParser(r.self)
            /\ op' = "load_cv"
            /\ SetLoad(suffix, x[1], x[2], nlp_fault, r.ret)
            /\ NoAnswer /\ NoSend /\ NoHttp
            /\ summary_ret' = NoSummary
            /\ configured_ret' = FALSE
            /\ UNCHANGED emailVars

\* a call of answer_question
AnswerQuestion(questions) ==
    \E q \in questions :
        \E r \in {answer_question(Parser, q)} :
            /\ op' = "answer_question"
            /\ SetAnswer(q, r)
            /\ NoLoad /\ NoSend /\ NoHttp
            /\ summary_ret' = NoSummary
            /\ configured_ret' = FALSE
            /\ UNCHANGED <<parserVars, emailVars>>

\* a call of get_cv_summary
GetCvSummary ==
    /\ op' = "get_cv_summary"
    /\ summary_ret' = get_cv_summary(Parser)
    /\ NoLoad /\ NoAnswer /\ NoSend /\ NoHttp
    /\ configured_ret' = FALSE
    /\ UNCHANGED <<parserVars, emailVars>>

\* the start of main.py, before any request is served: load_cv on the
\* sample file when it exists, with one of the given texts in it
StartupLoad(samples, nlp_faults) ==
    /\ op = "init"
    /\ \E content \in samples, nlp_fault \in nlp_faults :
           \E r \in {load_cv(Parser, Ext_txt, FALSE, content, nlp_fault)} :
               /\ SetParser(r.self)
               /\ op' = "startup"
               /\ SetLoad(Ext_txt, FALSE, content, nlp_fault, r.ret)
               /\ NoAnswer /\ NoSend /\ NoHttp
               /\ summary_ret' = NoSummary
               /\ configured_ret' = FALSE
               /\ UNCHANGED emailVars

----------------------------------------------------------------------------
(* The operations on the notification sender                               *)

Recipients == {"ann@example.org"}

Subjects == {"Interview"}

Bodies == {Body_plain, Body_html}

SendGridOutcomes ==
    {[raises |-> TRUE, status_code |-> 0]}
        \cup {[raises |-> FALSE, status_code |-> s] : s \in {200, 201, 202, 204, 400}}

SmtpFails ==
    {"none", "smtp.connect", "smtp.starttls", "smtp.login.auth", "smtp.login",
     "smtp.send_message"}

\* a call of is_configured
IsConfigured ==
    /\ op' = "is_configured"
    /\ configured_ret' = is_configured(email_service, SENDGRID_AVAILABLE)
    /\ NoLoad /\ NoAnswer /\ NoSend /\ NoHttp
    /\ summary_ret' = NoSummary
    /\ UNCHANGED <<parserVars, emailVars>>

\* a call of send_email, with what the transports do
SendEmail ==
    \E recipient \in Recipients, subject \in Subjects, body \in Bodies,
       sg_outcome \in SendGridOutcomes, smtp_fail \in SmtpFails :
        /\ op' = "send_email"
        /\ SetSend(send_email(email_service, SENDGRID_AVAILABLE, recipient, subject,
                              body, sg_outcome, smtp_fail),
                   sg_outcome, smtp_fail)
        /\ NoLoad /\ NoAnswer /\ NoHttp
        /\ summary_ret' = NoSummary
        /\ configured_ret' = FALSE
        /\ UNCHANGED <<parserVars, emailVars>>

\* a call of test_connection
TestConnection ==
    /\ op' = "test_connection"
    /\ email_ret' = test_connection(email_service, SENDGRID_AVAILABLE)
    /\ send_arg' = NoSendArg
    /\ transport_log' = <<>>
    /\ mail' = NoMail
    /\ NoLoad /\ NoAnswer /\ NoHttp
    /\ summary_ret' = NoSummary
    /\ configured_ret' = FALSE
    /\ UNCHANGED <<parserVars, emailVars>>

----------------------------------------------------------------------------
(* The HTTP endpoints                                                       *)

\* GET /
Root ==
    /\ op' = "GET /"
    /\ configured_ret' = is_configured(email_service, SENDGRID_AVAILABLE)
    /\ SetHttp(Outcome("none", 200, "running"))
    /\ NoLoad /\ NoAnswer /\ NoSend
    /\ summary_ret' = NoSummary
    /\ UNCHANGED <<parserVars, emailVars>>

\* POST /upload-cv
UploadCv(suffixes, texts, nlp_faults) ==
    \E suffix \in suffixes, x \in Extractions(texts), nlp_fault \in nlp_faults,
       io_fault \in BOOLEAN :
        \E r \in {upload_cv(Parser, suffix, io_fault, x[1], x[2], nlp_fault)} :
            /\ SetParser(r.self)
            /\ op' = "POST /upload-cv"
            /\ IF io_fault
               THEN NoLoad
               ELSE SetLoad(suffix, x[1], x[2], nlp_fault,
                            load_cv(Parser, suffix, x[1], x[2], nlp_fault).ret)
            /\ SetHttp(r.out)
            /\ NoAnswer /\ NoSend
            /\ summary_ret' = NoSummary
            /\ configured_ret' = FALSE
            /\ UNCHANGED emailVars

\* POST /chat
Chat(questions) ==
    \E q \in questions :
        \E r \in {chat_about_cv(Parser, q)} :
            /\ op' = "POST /chat"
            /\ SetAnswer(q, r.answer)
            /\ SetHttp(r.out)
            /\ NoLoad /\ NoSend
            /\ summary_ret' = NoSummary
            /\ configured_ret' = FALSE
            /\ UNCHANGED <<parserVars, emailVars>>

\* POST /send-email
PostSendEmail ==
    \E recipient \in Recipients, subject \in Subjects, body \in Bodies,
       sg_outcome \in SendGridOutcomes, smtp_fail \in SmtpFails :
        /\ op' = "POST /send-email"
        /\ SetSend(send_email(email_service, SENDGRID_AVAILABLE, recipient, subject,
                              body, sg_outcome, smtp_fail),
                   sg_outcome, smtp_fail)
        /\ SetHttp(ExceptException(Outcome("none", 200, ""), "Error sending email: "))
        /\ NoLoad /\ NoAnswer
        /\ summary_ret' = NoSummary
        /\ configured_ret' = FALSE
        /\ UNCHANGED <<parserVars, emailVars>>

\* GET /cv-info
CvInfo ==
    /\ op' = "GET /cv-info"
    /\ SetHttp(get_cv_info(Parser))
    /\ summary_ret' = IF is_loaded THEN get_cv_summary(Parser) ELSE NoSummary
    /\ NoLoad /\ NoAnswer /\ NoSend
    /\ configured_ret' = FALSE
    /\ UNCHANGED <<parserVars, emailVars>>

----------------------------------------------------------------------------
(* Initial states and specifications                                        *)

\* the environment variables EmailService.__init__ reads
Envs(keys, users, passwords, servers, senders) ==
    [SENDGRID_API_KEY : keys, SMTP_USERNAME : users, SMTP_PASSWORD : passwords,
     SMTP_SERVER : servers, FROM_EMAIL : senders]

AllEnvs ==
    Envs({Unset, <<"">>, <<"SG.key">>}, {Unset, <<"">>, <<"ann@example.org">>},
         {Unset, <<"">>, <<"app-password">>}, {Unset, <<Host_other>>},
         {Unset, <<"hr@example.org">>})

NoEnv == Envs({Unset}, {Unset}, {Unset}, {Unset}, {Unset})

\* no call has been made since the start
NoCalls ==
    /\ question = <<>>
    /\ responder = "none"
    /\ answer_ret = NoReply
    /\ summary_ret = NoSummary
    /\ configured_ret = FALSE
    /\ send_arg = NoSendArg
    /\ email_ret = NoEmailRet
    /\ transport_log = <<>>
    /\ mail = NoMail
    /\ http_status = 0
    /\ http_detail = ""

\* cv_parser = CVParser()
FreshParser ==
    /\ cv_content = NewParser.cv_content
    /\ cv_sections = NewParser.cv_sections
    /\ cv_entities = NewParser.cv_entities
    /\ is_loaded = NewParser.is_loaded
    /\ ever_loaded = FALSE
    /\ op = "init"
    /\ load_arg = NoArg
    /\ load_ret = FALSE

\* email_service = EmailService() under one of the environments
FreshSender(envs, availables) ==
    /\ SENDGRID_AVAILABLE \in availables
    /\ email_service \in {NewEmailService(env) : env \in envs}

\* the parser alone
Init == FreshParser /\ FreshSender(NoEnv, {TRUE}) /\ NoCalls

Next ==
    \/ LoadCv(Suffixes, LoadTexts, BOOLEAN)
    \/ AnswerQuestion(LoadQuestions)
    \/ GetCvSummary

Spec == Init /\ [][Next]_vars

\* the notification sender alone, under every environment
InitEmail == FreshParser /\ FreshSender(AllEnvs, BOOLEAN) /\ NoCalls

NextEmail ==
    \/ IsConfigured
    \/ SendEmail
    \/ TestConnection

SpecEmail == InitEmail /\ [][NextEmail]_vars

\* questions to the documents of AskTexts
InitAsk == Init

NextAsk ==
    \/ LoadCv({Ext_txt}, AskTexts, {FALSE})
    \/ AnswerQuestion(AskQuestions)

SpecAsk == InitAsk /\ [][NextAsk]_vars

\* the segmentation of the sample file loaded at the start
InitSeg == Init

NextSeg ==
    \/ StartupLoad(SegTexts, BOOLEAN)
    \/ GetCvSummary

SpecSeg == InitSeg /\ [][NextSeg]_vars

HttpEnvs ==
    Envs({Unset, <<"SG.key">>}, {Unset, <<"ann@example.org">>}, {<<"app-password">>},
         {Unset}, {Unset})

\* the server: main.py
InitHttp == FreshParser /\ FreshSender(HttpEnvs, BOOLEAN) /\ NoCalls

NextHttp ==
    \/ StartupLoad(HttpTexts, BOOLEAN)
    \/ Root
    \/ UploadCv({Ext_pdf, Ext_rtf}, HttpTexts, BOOLEAN)
    \/ Chat(LoadQuestions)
    \/ PostSendEmail
    \/ CvInfo

SpecHttp == InitHttp /\ [][NextHttp]_vars

----------------------------------------------------------------------------
(* Properties of load_cv                                                    *)

\* C1: whenever load_cv returns False (unsupported suffix, extraction
\* fault, blank text, or a fault while sections or entities are being
\* recomputed), cv_content, cv_sections, cv_entities and is_loaded keep the
\* values they had before the call.
C1_FailedLoadKeepsState ==
    [][(op' = "load_cv" /\ load_ret' = FALSE) => UNCHANGED parserVars]_vars

\* C2: whenever is_loaded holds, cv_sections is the segmentation of the
\* current cv_content and cv_entities the entity extraction of it, and only
\* a load_cv call that returns True changes cv_sections or cv_entities.
C2_DerivedFromContent ==
    /\ [](is_loaded =>
            /\ cv_sections = ParseSections(cv_content)
            /\ cv_entities = ExtractEntities(cv_content, ParseSections(cv_content)))
    /\ [][~(op' = "load_cv" /\ load_ret') => UNCHANGED <<cv_sections, cv_entities>>]_vars

\* the lines of a document, stripped, without the blank ones
NonBlankLines(content) ==
    SelectSeq([i \in 1..Len(Split(content, "\n")) |-> Strip(Split(content, "\n")[i])],
              LAMBDA l : l # <<>>)

\* some line of the document matches a header pattern
SomePatternMatches(content) ==
    \E i \in 1..Len(NonBlankLines(content)) : \E k \in 1..Len(section_patterns) :
        PatternMatches(k, NonBlankLines(content)[i])

\* some non-blank line of the document is not a section header
SomeBodyLine(content) ==
    \E i \in 1..Len(NonBlankLines(content)) : HeaderOf(NonBlankLines(content)[i]) = "none"

\* the last call was load_cv on a supported suffix whose extraction gave
\* text that is not blank
LoadedText ==
    /\ op = "load_cv"
    /\ Lower(load_arg.suffix) \in SupportedSuffixes
    /\ load_arg.extracted = "text"

\* C3 as stated: for every supported suffix and every extracted text that
\* is not blank, load_cv returns True, sets is_loaded, and leaves a
\* non-empty cv_sections, which has the "other" section when no line
\* matched a header pattern.
C3_LoadSucceedsNonEmpty ==
    LoadedText =>
        /\ load_ret
        /\ is_loaded
        /\ DOMAIN cv_sections # {}
        /\ (~SomePatternMatches(cv_content) => "other" \in DOMAIN cv_sections)

\* C3 as amended: when, in addition, the entity extraction raises no
\* fault, load_cv returns True and sets is_loaded; cv_sections is non-empty
\* exactly when some non-blank line is not a section header, and it has the
\* "other" section when no line matched a header pattern.
C3_LoadSucceeds ==
    (LoadedText /\ ~load_arg.nlp_fault) =>
        /\ load_ret
        /\ is_loaded
        /\ (DOMAIN cv_sections # {}) = SomeBodyLine(cv_content)
        /\ (~SomePatternMatches(cv_content) => "other" \in DOMAIN cv_sections)

\* a successful load of a document without any header line
C3_Witness ==
    /\ LoadedText
    /\ load_ret
    /\ ~SomePatternMatches(cv_content)
    /\ "other" \in DOMAIN cv_sections

----------------------------------------------------------------------------
(* Properties of answer_question                                            *)

NoCvReply == Reply(Answer("No CV loaded", <<>>, {}), Conf(0, 10), <<>>)

\* C4: while no load_cv call has returned True, answer_question returns
\* ("No CV loaded", 0.0, []) for every question and leaves the parser as
\* it was.
C4_UnloadedAnswer ==
    [][(op' = "answer_question" /\ ~ever_loaded) =>
          (answer_ret' = NoCvReply /\ UNCHANGED parserVars)]_vars

\* a question answered after a load that failed but had replaced cv_content
C4_Witness ==
    /\ op = "answer_question"
    /\ ~ever_loaded
    /\ cv_content # <<>>
    /\ answer_ret = NoCvReply

\* the question categories in the order answer_question tests them
Categories == <<"role", "education", "skills", "experience", "projects">>

\* the keywords of the j-th category
CategoryKeywords(j) == <<Kw_role, Kw_education, Kw_skills, Kw_experience, Kw_projects>>[j]

\* a keyword of the j-th category occurs in the lower-cased question
KeywordOccurs(j, q) ==
    \E k \in 1..Len(CategoryKeywords(j)) :
        \E i \in 0..(Len(q) - Len(CategoryKeywords(j)[k])) :
            SubSeq(Lower(q), i + 1, i + Len(CategoryKeywords(j)[k])) = CategoryKeywords(j)[k]

\* what the named responder returns for the parser and the question
ResponderReply(name, self, q) ==
    CASE name = "role"       -> _answer_role_question(self, q)
      [] name = "education"  -> _answer_education_question(self, q)
      [] name = "skills"     -> _answer_skills_question(self, q)
      [] name = "experience" -> _answer_experience_question(self, q)
      [] name = "projects"   -> _answer_projects_question(self, q)
      [] name = "general"    -> _general_search(self, q)

\* C5: a question to a loaded document goes to the responder of the first
\* category, in the order role, education, skills, experience, projects,
\* one of whose keywords occurs in the lower-cased question, and to the
\* general responder exactly when no keyword of the five occurs; the reply
\* is the reply of that one responder.
C5_FirstMatchRouting ==
    (op = "answer_question" /\ is_loaded) =>
        /\ \A j \in 1..Len(Categories) :
              (responder = Categories[j]) =
                  (KeywordOccurs(j, question) /\ \A i \in 1..(j - 1) : ~KeywordOccurs(i, question))
        /\ (responder = "general") = (\A j \in 1..Len(Categories) : ~KeywordOccurs(j, question))
        /\ answer_ret = ResponderReply(responder, Parser, question)

\* a question with keywords of two categories, answered by the earlier one
C5_Witness ==
    /\ op = "answer_question"
    /\ is_loaded
    /\ responder = "education"
    /\ KeywordOccurs(2, question)
    /\ KeywordOccurs(4, question)

NotFoundReply ==
    Reply(Answer("I couldn't find relevant information in the CV to answer that question.",
                 <<>>, {}),
          Conf(2, 10), <<>>)

\* the numerator of a section's overlap score: the distinct non-stop
\* words the question and the section share
Overlap(q, content) == Cardinality(Range(ContentWords(q)) \cap Range(ContentWords(content)))

\* a section's overlap score is above 0.1, the denominator being n
ScoreAbove(q, content, n) == 10 * Overlap(q, content) > (IF n > 1 THEN n ELSE 1)

\* C9 for one way of counting the question words
GeneralThreshold(n) ==
    /\ \A i \in 1..Len(answer_ret.sources) :
          /\ answer_ret.sources[i] \in DOMAIN cv_sections
          /\ ScoreAbove(question, cv_sections[answer_ret.sources[i]], n)
          /\ answer_ret.answer.arg = Prefix(cv_sections[answer_ret.sources[i]], 300) \o Ellipsis
    /\ (answer_ret.sources = <<>>) = (answer_ret = NotFoundReply)
    /\ (\A s \in DOMAIN cv_sections : ~ScoreAbove(question, cv_sections[s], n))
          => answer_ret = NotFoundReply

\* C9: the general responder returns a section only if the overlap score
\* of that section is above 0.1, and returns the not-found message with
\* confidence 0.2 and no sources when no section's score is above 0.1;
\* this holds whether the question words are counted with or without
\* repetitions.
C9_GeneralThreshold ==
    (op = "answer_question" /\ responder = "general") =>
        /\ GeneralThreshold(Len(ContentWords(question)))
        /\ GeneralThreshold(Cardinality(Range(ContentWords(question))))

\* a question whose best section scores exactly 1/10, answered not-found
C9_Witness ==
    /\ op = "answer_question"
    /\ responder = "general"
    /\ \E s \in DOMAIN cv_sections :
          /\ Overlap(question, cv_sections[s]) > 0
          /\ 10 * Overlap(question, cv_sections[s]) = Len(ContentWords(question))
    /\ answer_ret = NotFoundReply

----------------------------------------------------------------------------
(* Properties of the segmentation                                           *)

\* a stripped line is a section header: some pattern matches it and it is
\* under 50 characters long
IsHeaderLine(l) == Len(l) < 50 /\ \E k \in 1..Len(section_patterns) : PatternMatches(k, l)

\* the section a header line switches to: the first pattern that matches
HeaderSection(l) ==
    section_patterns[SetMin({k \in 1..Len(section_patterns) : PatternMatches(k, l)})][1]

\* the section that is current when the i-th non-blank line is read
CurrentAt(lines, i) ==
    IF \E h \in 1..i : IsHeaderLine(lines[h])
    THEN HeaderSection(lines[SetMax({h \in 1..i : IsHeaderLine(lines[h])})])
    ELSE "other"

\* the lines that belong to the body of section s
BodyLines(lines, s) ==
    LET at == SelectSeq([i \in 1..Len(lines) |-> i],
                        LAMBDA i : ~IsHeaderLine(lines[i]) /\ CurrentAt(lines, i) = s)
    IN  [j \in 1..Len(at) |-> lines[at[j]]]

\* the lines of the body of section s in cv_sections
StoredLines(s) == IF s \in DOMAIN cv_sections THEN Split(cv_sections[s], "\n") ELSE <<>>

\* C10: a line that matches a header pattern and is under 50 characters
\* long is in no section's body; every other non-blank line, trimmed, is in
\* the body of the section that was current when it was read, in reading
\* order, and in no other body.
C10_HeadersNotInBodies ==
    \A s \in Range(SectionNames) : StoredLines(s) = BodyLines(NonBlankLines(cv_content), s)

\* a document with a header line and, under it, a line of 50 characters
\* that matches a pattern and is kept as body text
C10_Witness ==
    /\ op = "startup"
    /\ \E i \in 1..Len(NonBlankLines(cv_content)) : IsHeaderLine(NonBlankLines(cv_content)[i])
    /\ \E s \in DOMAIN cv_sections : \E i \in 1..Len(StoredLines(s)) :
          /\ s # "other"
          /\ Len(StoredLines(s)[i]) = 50
          /\ \E k \in 1..Len(section_patterns) : PatternMatches(k, StoredLines(s)[i])

----------------------------------------------------------------------------
(* Properties of the HTTP endpoints                                         *)

\* C6: POST /chat and GET /cv-info answer 400 when no document is loaded,
\* POST /upload-cv answers 400 when load_cv returns False, and 500 is the
\* answer only to an unexpected fault (here: the temporary file cannot be
\* written).
C6_ClientErrorsAre400 ==
    /\ (op = "POST /chat" /\ ~is_loaded) => http_status = 400
    /\ (op = "GET /cv-info" /\ ~is_loaded) => http_status = 400
    /\ (op = "POST /upload-cv" /\ load_arg # NoArg /\ ~load_ret) => http_status = 400
    /\ http_status = 500 => (op = "POST /upload-cv" /\ load_arg = NoArg)

----------------------------------------------------------------------------
(* Properties of the notification sender                                    *)

ApiKeySet == Truthy(email_service.sendgrid_api_key)

SmtpPairSet == Truthy(email_service.smtp_username) /\ Truthy(email_service.smtp_password)

\* C7 as stated: is_configured returns True whenever an API key is set, and
\* whenever both the SMTP username and password are set, and False when
\* neither holds.
C7_ConfiguredByCredentials ==
    op = "is_configured" =>
        /\ ApiKeySet => configured_ret
        /\ SmtpPairSet => configured_ret
        /\ (~ApiKeySet /\ ~SmtpPairSet) => ~configured_ret

\* C7 as amended: the API key counts only when the SendGrid client library
\* could be imported; is_configured returns True whenever the library is
\* available and a non-empty API key is set, and whenever a non-empty SMTP
\* username and a non-empty password are set, and False otherwise.
C7_Configured ==
    op = "is_configured" =>
        /\ (SENDGRID_AVAILABLE /\ ApiKeySet) => configured_ret
        /\ SmtpPairSet => configured_ret
        /\ (~(SENDGRID_AVAILABLE /\ ApiKeySet) /\ ~SmtpPairSet) => ~configured_ret

\* an API key without the client library and without SMTP credentials
C7_Witness ==
    /\ op = "is_configured"
    /\ ~SENDGRID_AVAILABLE
    /\ ApiKeySet
    /\ ~SmtpPairSet
    /\ ~configured_ret

PrimaryAttempted == \E i \in 1..Len(transport_log) : transport_log[i] = "sendgrid.send"

SecondaryAttempted ==
    \E i \in 1..Len(transport_log) : transport_log[i] \in Range(SmtpSteps) \cup {"smtp.quit"}

PrimaryFailed ==
    \/ send_arg.sg_outcome.raises
    \/ send_arg.sg_outcome.status_code \notin {200, 201, 202}

ConfigurationMessage ==
    Msg("Email service not configured. Please set up SendGrid API key or SMTP credentials.",
        <<>>)

\* C8: a send_email call attempts at most one transport: none when the
\* sender is not configured (it returns False with the configuration
\* message), the primary only when the API key is set, the secondary
\* otherwise; when the primary raises or answers a non-success status the
\* call returns False and the secondary is not attempted.
C8_OneTransportPerSend ==
    op = "send_email" =>
        /\ ~(PrimaryAttempted /\ SecondaryAttempted)
        /\ (~(SENDGRID_AVAILABLE /\ ApiKeySet) /\ ~SmtpPairSet) =>
              /\ transport_log = <<>>
              /\ email_ret = <<FALSE, ConfigurationMessage>>
        /\ PrimaryAttempted => ApiKeySet
        /\ ((SENDGRID_AVAILABLE /\ ApiKeySet) \/ SmtpPairSet) =>
              (PrimaryAttempted \/ SecondaryAttempted)
        /\ SecondaryAttempted => ~(SENDGRID_AVAILABLE /\ ApiKeySet)
        /\ (PrimaryAttempted /\ PrimaryFailed) => (~email_ret[1] /\ ~SecondaryAttempted)

\* the primary transport raised while SMTP credentials were set as well
C8_Witness ==
    /\ op = "send_email"
    /\ PrimaryAttempted
    /\ send_arg.sg_outcome.raises
    /\ SmtpPairSet
    /\ ~email_ret[1]
    /\ ~SecondaryAttempted


-----------------------------------------------------------------------------
(* Properties of the overlap score, the SMTP session and the sources        *)

\* the set of lower-cased non-stop-word tokens of a text
WordSet(text) == Range(ContentWords(text))

\* |question-words \cap section-words| / max(|question-words|, 1), the
\* question words counted as a set
SetScore(q, content) ==
    Conf(Cardinality(WordSet(q) \cap WordSet(content)),
         IF Cardinality(WordSet(q)) > 1 THEN Cardinality(WordSet(q)) ELSE 1)

\* a/b = c/d
ConfEqual(x, y) == x[1] * y[2] = y[1] * x[2]

\* the position, in mapping iteration order, of the first section that
\* attains the maximum set score for the question
FirstBest(q, sections) ==
    With(SectionKeys(sections), LAMBDA keys :
        SetMin({i \in 1..Len(keys) :
                   \A j \in 1..Len(keys) :
                       ~ConfGreater(SetScore(q, sections[keys[j]]),
                                    SetScore(q, sections[keys[i]]))}))

\* C11: when the general responder returns a section, that section is the
\* first one in mapping iteration order that attains the maximum of
\* |question-words \cap section-words| / max(|question-words|, 1), both
\* word collections being sets of lower-cased non-stop-word tokens, and
\* the returned confidence equals that score.
C11_SetOverlapScore ==
    (op = "answer_question" /\ responder = "general" /\ answer_ret.sources # <<>>) =>
        /\ answer_ret.sources =
              <<SectionKeys(cv_sections)[FirstBest(question, cv_sections)]>>
        /\ ConfEqual(answer_ret.conf,
                     SetScore(question, cv_sections[answer_ret.sources[1]]))

\* the position of a step in the transport log of the last send (0: the
\* step was not taken)
StepAt(step) ==
    IF \E i \in 1..Len(transport_log) : transport_log[i] = step
    THEN SetMin({i \in 1..Len(transport_log) : transport_log[i] = step})
    ELSE 0

\* the step was taken and did not raise
StepCompleted(step) == StepAt(step) > 0 /\ send_arg.smtp_fail # step

\* server.login was called and raised nothing
Authenticated ==
    StepAt("smtp.login") > 0 /\ send_arg.smtp_fail \notin {"smtp.login", "smtp.login.auth"}

\* C12: in every SMTP send the steps are taken in the order open session,
\* upgrade to encrypted mode, authenticate, send message, each at most
\* once and none before the one it follows completed; the message is sent
\* only in a session whose authentication succeeded; an authentication
\* failure ends the call with (False, message) and no message sent; and
\* the call returns True only after the send step completed.
C12_SmtpStepOrder ==
    (op = "send_email" /\ SecondaryAttempted) =>
        /\ \A i \in 1..Len(transport_log) :
              transport_log[i] \in Range(SmtpSteps) =>
                  /\ i <= Len(SmtpSteps)
                  /\ transport_log[i] = SmtpSteps[i]
                  /\ \A j \in 1..(i - 1) : StepCompleted(SmtpSteps[j])
        /\ StepAt("smtp.send_message") > 0 =>
              (Authenticated /\ StepAt("smtp.login") < StepAt("smtp.send_message"))
        /\ (StepAt("smtp.login") > 0 /\ send_arg.smtp_fail = "smtp.login.auth") =>
              /\ email_ret[1] = FALSE
              /\ StepAt("smtp.send_message") = 0
        /\ email_ret[1] => StepCompleted("smtp.send_message")

\* the server rejected the credentials: the session was opened, upgraded
\* and closed, and the call returned False without sending
C12_Witness ==
    /\ op = "send_email"
    /\ send_arg.smtp_fail = "smtp.login.auth"
    /\ transport_log = <<"smtp.connect", "smtp.starttls", "smtp.login", "smtp.quit">>
    /\ email_ret[1] = FALSE
    /\ mail.kind = "MIMEMultipart"

\* the section a category responder reads
ResponderSection ==
    [role |-> "experience", education |-> "education", skills |-> "skills",
     experience |-> "experience", projects |-> "projects"]

\* C13: for a loaded document, every section name in the sources returned
\* by answer_question is a key of the current sections mapping, and when
\* the section the responder reads is absent the sources are empty.
C13_SourcesArePresentSections ==
    (op = "answer_question" /\ is_loaded) =>
        /\ \A i \in 1..Len(answer_ret.sources) : answer_ret.sources[i] \in DOMAIN cv_sections
        /\ (/\ responder \in DOMAIN ResponderSection
            /\ ResponderSection[responder] \notin DOMAIN cv_sections)
              => answer_ret.sources = <<>>
====
